---------------------------- MODULE Spec2Model ----------------------------
(***************************************************************************)
(* Momentarium background processing pipeline.                             *)
(*                                                                         *)
(* The model covers the job-submission route (POST /api/galleries/process),*)
(* the QStash queue, the webhook (POST /api/jobs/process), the status      *)
(* route (GET /api/jobs/[jobId]/status), the gallery route                 *)
(* (GET /api/galleries/[galleryId]) and the relational rows they read and  *)
(* write (images, albums, album_images, processing_jobs).                  *)
(*                                                                         *)
(* A route handler is cut at its awaits: every action is one await of the  *)
(* handler (one SQL statement or one network call) together with the       *)
(* synchronous code that follows it up to the next await.  An await that   *)
(* can reject has a second disjunct for the rejection.                     *)
(*                                                                         *)
(* Six specifications share the actions:                                   *)
(*   Spec      the submissions and up to MaxExec deliveries of their       *)
(*             messages by the queue, overlapping or not; the AI model     *)
(*             fails or proposes at most one album;                        *)
(*   SpecCall  the submissions and one webhook invocation, by the queue or *)
(*             by any client with any header and body; the AI model gives  *)
(*             any reply of up to MaxAlbums albums;                        *)
(*   SpecPoll  Spec with the status route polled at any time; the AI model *)
(*             fails or proposes no album;                                 *)
(*   SpecSubmit  MaxConc submissions, overlapping or not, and one delivery *)
(*             by the queue; the AI model fails or proposes at most one    *)
(*             album;                                                      *)
(*   SpecGallery  the submissions, their deliveries one after the other    *)
(*             and the gallery route fetched at any time; the AI model     *)
(*             fails or proposes up to MaxAlbums albums of one key each;   *)
(*   SpecLive  the submissions and their deliveries one after the other,   *)
(*             with weak fairness of the queue's deliveries and of the     *)
(*             steps of an invocation; the AI model fails or proposes at   *)
(*             most one album.                                             *)
(***************************************************************************)
EXTENDS Integers, Sequences, FiniteSets, TLC

----------------------------------------------------------------------------
(* Bounds of the model *)

\* length of the longest key list in a request body or in an AI reply
MaxLen == 2
\* number of entries of the longest album list in an AI reply
MaxAlbums == 2
\* number of webhook invocations (queue deliveries and direct calls)
MaxExec == 2
\* number of requests to the job-submission route
MaxSubmit == 1
\* number of rows of the users table (created out of band)
MaxUser == 1
\* number of requests to the job-submission route in SpecSubmit
MaxConc == 2

----------------------------------------------------------------------------
(* Values *)

Null == "null"
Now == "ts"

\* storage keys of uploaded objects
Keys == {"a.jpg", "b.jpg"}

RECURSIVE SeqsUpTo(_, _)
SeqsUpTo(S, n) ==
    IF n = 0 THEN {<<>>}
    ELSE LET shorter == SeqsUpTo(S, n - 1)
         IN  shorter \cup {Append(s, x) : s \in {t \in shorter : Len(t) = n - 1}, x \in S}

KeyLists == SeqsUpTo(Keys, MaxLen)

Range(s) == {s[k] : k \in 1..Len(s)}

\* identifiers are numbered: n > 0 stands for the n-th UUID that
\* gen_random_uuid() produces (one more than there are submissions, so that
\* some UUID is the id of no job), 0 for a string that is not a UUID
Uuids == 1..(MaxSubmit + 1)
NotAUuid == 0
IdStrings == Uuids \cup {NotAUuid}

Users == 1..MaxUser
\* userId values of request bodies: 0 is not positive, MaxUser + 1 is no row
\* of the users table
UserIdValues == 0..(MaxUser + 1)

\* config.app.apiSecretKey
ApiSecretKey == "s3cret"
\* values of the X-API-Secret header; Null is a request without the header
HeaderValues == {Null, "", "wrong", ApiSecretKey}

Execs == 1..MaxExec
Submits == 1..MaxSubmit

DbError == "database error"
StorageError == "storage error"
NoImagesError == "No images found for the provided keys"
FkError == "violates foreign key constraint"
AiError == "Failed to generate albums"
QueueError == "Failed to enqueue processing job"

----------------------------------------------------------------------------
(* Database operations (lib/db) *)

\* gen_random_uuid(): an identifier no job row has yet (the n-th row gets
\* the n-th UUID; rows are never deleted)
NextUuid(J) == Cardinality(DOMAIN J) + 1

\* INSERT INTO images: storage_key is UNIQUE (error 23505), user_id
\* REFERENCES users(id) (error 23503); id is SERIAL
imageDb_create(I, userId, storageKey) ==
    IF \E k \in 1..Len(I) : I[k].storage_key = storageKey
    THEN [rows |-> I, code |-> "23505"]
    ELSE IF userId \notin Users
    THEN [rows |-> I, code |-> "23503"]
    ELSE [rows |-> Append(I, [id |-> Len(I) + 1, user_id |-> userId,
                              storage_key |-> storageKey]),
          code |-> "ok"]

\* imageDb.findByStorageKeys without its WHERE clause
imageDb_findByStorageKeys_all(I, storageKeys) == I

\* SELECT * FROM images WHERE storage_key = ANY($1), rows in table order
imageDb_findByStorageKeys(I, storageKeys) ==
    SelectSeq(I, LAMBDA r : r.storage_key \in Range(storageKeys))

\* INSERT INTO albums ... RETURNING *; theme_description is
\* themeDescription || null; by is not a column: it records the invocation
\* that ran the statement
albumDb_create(A, userId, title, themeDescription, by) ==
    Append(A, [id |-> Len(A) + 1, user_id |-> userId, title |-> title,
               theme_description |-> IF themeDescription = "" THEN Null
                                     ELSE themeDescription,
               by |-> by])

\* INSERT INTO album_images VALUES (albumId, imageId, index), ... ON CONFLICT
\* (album_id, image_id) DO NOTHING, for the image ids from index on
RECURSIVE albumDb_addImages(_, _, _, _)
albumDb_addImages(L, albumId, imageIds, index) ==
    IF index >= Len(imageIds) THEN L
    ELSE LET imageId == imageIds[index + 1]
             conflict == \E r \in L : r.album_id = albumId /\ r.image_id = imageId
             L2 == IF conflict THEN L
                   ELSE L \cup {[album_id |-> albumId, image_id |-> imageId,
                                 display_order |-> index]}
         IN  albumDb_addImages(L2, albumId, imageIds, index + 1)

\* INSERT INTO processing_jobs (user_id, image_keys): status defaults to
\* 'pending', the other columns to NULL
jobDb_create(J, id, userId, imageKeys) ==
    (id :> [user_id |-> userId, status |-> "pending", image_keys |-> imageKeys,
            result_data |-> <<>>, error_message |-> Null,
            started_at |-> Null, completed_at |-> Null]) @@ J

\* the result_data column: empty when NULL, else the JSON value stored
JSON_stringify(resultData) == <<resultData>>

\* jobDb.updateStatus without the 'processing' branch's write
jobDb_updateStatus_noProcessing(J, id, status, resultData, errorMessage) ==
    IF id \notin DOMAIN J \/ status = "processing" THEN J
    ELSE IF status = "completed"
    THEN [J EXCEPT ![id].status = status, ![id].completed_at = Now,
                   ![id].result_data = JSON_stringify(resultData)]
    ELSE [J EXCEPT ![id].status = status, ![id].completed_at = Now,
                   ![id].error_message = errorMessage]

\* jobDb.updateStatus whose 'failed' branch does not set error_message
jobDb_updateStatus_noMessage(J, id, status, resultData, errorMessage) ==
    IF id \notin DOMAIN J THEN J
    ELSE IF status = "processing"
    THEN [J EXCEPT ![id].status = status, ![id].started_at = Now]
    ELSE IF status = "completed"
    THEN [J EXCEPT ![id].status = status, ![id].completed_at = Now,
                   ![id].result_data = JSON_stringify(resultData)]
    ELSE [J EXCEPT ![id].status = status, ![id].completed_at = Now]

\* jobDb.updateStatus whose 'processing' branch also resets the columns of
\* an earlier attempt
jobDb_updateStatus_clearing(J, id, status, resultData, errorMessage) ==
    IF id \notin DOMAIN J THEN J
    ELSE IF status = "processing"
    THEN [J EXCEPT ![id].status = status, ![id].started_at = Now,
                   ![id].completed_at = Null, ![id].error_message = Null,
                   ![id].result_data = <<>>]
    ELSE IF status = "completed"
    THEN [J EXCEPT ![id].status = status, ![id].completed_at = Now,
                   ![id].result_data = JSON_stringify(resultData)]
    ELSE [J EXCEPT ![id].status = status, ![id].completed_at = Now,
                   ![id].error_message = errorMessage]

\* UPDATE processing_jobs SET ... WHERE id = $n: no row is read first, and a
\* statement that matches no row changes nothing and raises nothing
jobDb_updateStatus(J, id, status, resultData, errorMessage) ==
    IF id \notin DOMAIN J THEN J
    ELSE IF status = "processing"
    THEN [J EXCEPT ![id].status = status, ![id].started_at = Now]
    ELSE IF status = "completed"
    THEN [J EXCEPT ![id].status = status, ![id].completed_at = Now,
                   ![id].result_data = JSON_stringify(resultData)]
    ELSE IF status = "failed"
    THEN [J EXCEPT ![id].status = status, ![id].completed_at = Now,
                   ![id].error_message = errorMessage]
    ELSE [J EXCEPT ![id].status = status]

----------------------------------------------------------------------------
(* AI Batch Adapter (lib/ai) *)

Titles == {"", "Trip"}
Themes == {"", "Sunny"}

\* one entry of the albums list of a parsed reply; keysIsArray is
\* Array.isArray(album.image_keys)
ReplyEntries ==
    [title : Titles, theme : Themes, keysIsArray : BOOLEAN, image_keys : KeyLists]

\* what the model call produces: "error" is a rejected fetch or model call,
\* "text" a reply that JSON.parse rejects, "json" a parsed value whose albums
\* member is an array (hasAlbums) or not
AIRepliesUpTo(n) ==
    {[kind |-> k, hasAlbums |-> FALSE, albums |-> <<>>] : k \in {"error", "text", "json"}}
    \cup {[kind |-> "json", hasAlbums |-> TRUE, albums |-> a] :
            a \in SeqsUpTo(ReplyEntries, n)}

AIReplies == AIRepliesUpTo(MaxAlbums)

GeneratedAlbum(entry) ==
    [title |-> entry.title, theme |-> entry.theme, image_keys |-> entry.image_keys]

\* generateAlbums: the parsed proposal, or threw = TRUE
generateAlbums(reply) ==
    IF reply.kind # "json" THEN [threw |-> TRUE, result |-> [albums |-> <<>>]]
    ELSE IF ~reply.hasAlbums THEN [threw |-> TRUE, result |-> [albums |-> <<>>]]
    ELSE IF \E k \in 1..Len(reply.albums) :
                \/ reply.albums[k].title = ""
                \/ reply.albums[k].theme = ""
                \/ ~reply.albums[k].keysIsArray
    THEN [threw |-> TRUE, result |-> [albums |-> <<>>]]
    ELSE [threw |-> FALSE,
          result |-> [albums |-> [k \in 1..Len(reply.albums) |->
                                    GeneratedAlbum(reply.albums[k])]]]

FallbackTitle == "My Photo Collection"
FallbackTheme == "A collection of memorable moments and beautiful scenes."

RECURSIVE Unique(_)
Unique(keys) ==
    IF keys = <<>> THEN <<>>
    ELSE LET front == Unique(SubSeq(keys, 1, Len(keys) - 1))
             last == keys[Len(keys)]
         IN  IF last \in Range(front) THEN front ELSE Append(front, last)

\* createFallbackAlbum that lists every key once
createFallbackAlbum_unique(imageKeys) ==
    [albums |-> <<[title |-> FallbackTitle, theme |-> FallbackTheme,
                   image_keys |-> Unique(imageKeys)]>>]

createFallbackAlbum(imageKeys) ==
    [albums |-> <<[title |-> FallbackTitle, theme |-> FallbackTheme,
                   image_keys |-> imageKeys]>>]

----------------------------------------------------------------------------
(* Queue Dispatcher (lib/queue) *)

JobQueuePayload(jobId, userId, imageKeys) ==
    [json |-> TRUE, jobId |-> jobId, userId |-> userId, imageKeys |-> imageKeys]

\* verifyApiSecret that accepts any secret
verifyApiSecret_any(providedSecret) == TRUE

verifyApiSecret(providedSecret) == providedSecret = ApiSecretKey

----------------------------------------------------------------------------
(* State *)

VARIABLES
    images,        \* rows of the images table, in insertion order
    albums,        \* rows of the albums table; by is the creating invocation
    album_images,  \* rows of the album_images table
    jobs,          \* rows of processing_jobs, by id
    queue,         \* messages published to QStash
    sub,           \* the requests to the job-submission route
    ex,            \* the invocations of the webhook
    poll,          \* the last response of the status route
    gallery        \* the last response of the gallery route

vars == <<images, albums, album_images, jobs, queue, sub, ex, poll, gallery>>

NoResp == [code |-> 0, error |-> Null, details |-> Null, albumsCreated |-> 0]
Resp(code, error, details, n) ==
    [code |-> code, error |-> error, details |-> details, albumsCreated |-> n]

\* todo are the positions of imageKeys whose imageDb.create has not settled;
\* len and cause record what happened to the request: the length of the
\* imageKeys list of its body, and the error that reached its catch
IdleSub == [pc |-> "idle", userId |-> 0, imageKeys |-> <<>>, todo |-> {},
            len |-> 0, cause |-> Null, jobId |-> NotAUuid, resp |-> NoResp]

\* fromQueue, during, bodyOk, marked and aiFailed record what happened to the
\* invocation: it was delivered by the queue; it started while another
\* invocation for the same job was between its write of 'processing' and its
\* answer; its body was well formed; its write of 'processing' returned; its
\* generateAlbums call threw
IdleExec == [pc |-> "idle", fromQueue |-> FALSE, during |-> FALSE,
             hdr |-> Null, bodyOk |-> FALSE,
             jobId |-> NotAUuid, userId |-> 0, imageKeys |-> <<>>,
             marked |-> FALSE, images |-> <<>>, aiFailed |-> FALSE,
             albumsResult |-> [albums |-> <<>>], i |-> 0, album |-> 0,
             err |-> Null, resp |-> NoResp]

NoPoll == [code |-> 0, id |-> NotAUuid, status |-> Null, completedAt |-> Null,
           error |-> Null, resultUrl |-> <<>>]

NoGallery == [code |-> 0, userId |-> 0, albums |-> <<>>]

Init ==
    /\ images = <<>>
    /\ albums = <<>>
    /\ album_images = {}
    /\ jobs = <<>>
    /\ queue = {}
    /\ sub = [s \in Submits |-> IdleSub]
    /\ ex = [e \in Execs |-> IdleExec]
    /\ poll = NoPoll
    /\ gallery = NoGallery

----------------------------------------------------------------------------
(* Job submission: POST /api/galleries/process *)

\* config.upload.maxBatchSize
maxBatchSize == 50

\* a key list one longer than the batch size
TooManyKeys == [k \in 1..(maxBatchSize + 1) |-> "a.jpg"]

\* request bodies: a body that is not JSON, or a JSON object
NonJsonBody == [json |-> FALSE, jobId |-> NotAUuid, userId |-> 0, imageKeys |-> <<>>]

SubmitBodies ==
    {NonJsonBody} \cup
    [json : {TRUE}, jobId : {NotAUuid}, userId : UserIdValues,
     imageKeys : KeyLists \cup {TooManyKeys}]

\* requestSchema without the upper bound on imageKeys
submitSchema_noMax(body) ==
    /\ Len(body.imageKeys) >= 1
    /\ body.userId > 0

\* requestSchema.safeParse(body).success
submitSchema(body) ==
    /\ Len(body.imageKeys) >= 1
    /\ Len(body.imageKeys) <= maxBatchSize
    /\ body.userId > 0

SetSub(s, r) == sub' = [sub EXCEPT ![s] = r]

\* lines 57-63: the catch of the route
SubFail(x, cause) ==
    [x EXCEPT !.pc = "done", !.cause = cause,
              !.resp = Resp(500, "Failed to process gallery", Null, 0)]

\* lines 18-30: parse and validate the body; lines 33-34 start one
\* imageDb.create per position of imageKeys
SubmitStart(s) ==
    /\ sub[s].pc = "idle"
    /\ \A t \in DOMAIN sub : t < s => sub[t].pc # "idle"
    /\ \E body \in SubmitBodies :
         LET x == [sub[s] EXCEPT !.len = Len(body.imageKeys)]
         IN  IF ~body.json
             THEN SetSub(s, SubFail(sub[s], "not json"))
             ELSE IF ~submitSchema(body)
             THEN SetSub(s, [x EXCEPT !.pc = "done",
                                      !.resp = Resp(400, "Invalid request", Null, 0)])
             ELSE SetSub(s, [x EXCEPT !.pc = "register", !.userId = body.userId,
                                      !.imageKeys = body.imageKeys,
                                      !.todo = 1..Len(body.imageKeys)])
    /\ UNCHANGED <<images, albums, album_images, jobs, queue, ex, poll, gallery>>

\* a catch handler that swallows no error
swallowed_none(code) == FALSE

\* lines 35-42: the error codes the catch of imageDb.create swallows
swallowed(code) == code = "23505"

\* lines 32-44: one imageDb.create of the Promise.all settles (the queries
\* run on the pool in any order); a unique violation (23505) is swallowed,
\* any other error rejects the Promise.all, the rest of which still runs
SubmitRegister(s) ==
    /\ sub[s].pc \in {"register", "done"}
    /\ \E k \in sub[s].todo :
         LET r == imageDb_create(images, sub[s].userId, sub[s].imageKeys[k])
             x == [sub[s] EXCEPT !.todo = @ \ {k}]
             fulfilled == [x EXCEPT !.pc = IF @ = "register" /\ x.todo = {}
                                           THEN "create_job" ELSE @]
             rejected(cause) == IF x.pc = "register" THEN SubFail(x, cause) ELSE x
         IN  \/ /\ images' = r.rows
                /\ IF r.code = "ok" \/ swallowed(r.code)
                   THEN SetSub(s, fulfilled)
                   ELSE SetSub(s, rejected(r.code))
             \/ /\ images' = images
                /\ SetSub(s, rejected(DbError))
    /\ UNCHANGED <<albums, album_images, jobs, queue, ex, poll, gallery>>

\* lines 46-47: jobDb.create
SubmitCreateJob(s) ==
    /\ sub[s].pc = "create_job"
    /\ \/ /\ sub[s].userId \in Users
          /\ jobs' = jobDb_create(jobs, NextUuid(jobs), sub[s].userId, sub[s].imageKeys)
          /\ SetSub(s, [sub[s] EXCEPT !.pc = "enqueue", !.jobId = NextUuid(jobs)])
       \/ /\ jobs' = jobs
          /\ SetSub(s, SubFail(sub[s], IF sub[s].userId \in Users THEN DbError
                                       ELSE "23503"))
    /\ UNCHANGED <<images, albums, album_images, queue, ex, poll, gallery>>

\* SubmitEnqueue whose failed publishJSON has published the message
SubmitEnqueue_published(s) ==
    /\ sub[s].pc = "enqueue"
    /\ queue' = queue \cup
                {JobQueuePayload(sub[s].jobId, sub[s].userId, sub[s].imageKeys)}
    /\ \/ SetSub(s, [sub[s] EXCEPT !.pc = "done", !.resp = Resp(202, Null, Null, 0)])
       \/ SetSub(s, SubFail(sub[s], QueueError))
    /\ UNCHANGED <<images, albums, album_images, jobs, ex, poll, gallery>>

\* SubmitEnqueue that answers 202 although publishJSON rejected
SubmitEnqueue_unpublished(s) ==
    /\ sub[s].pc = "enqueue"
    /\ \/ /\ queue' = queue \cup
                {JobQueuePayload(sub[s].jobId, sub[s].userId, sub[s].imageKeys)}
          /\ SetSub(s, [sub[s] EXCEPT !.pc = "done", !.resp = Resp(202, Null, Null, 0)])
       \/ /\ queue' = queue
          /\ SetSub(s, [sub[s] EXCEPT !.pc = "done", !.cause = QueueError,
                                      !.resp = Resp(202, Null, Null, 0)])
    /\ UNCHANGED <<images, albums, album_images, jobs, ex, poll, gallery>>

\* lines 49-56 and enqueueProcessingJob: publishJSON, then 202; when
\* publishJSON rejects, nothing was published and the catch answers 500
SubmitEnqueue(s) ==
    /\ sub[s].pc = "enqueue"
    /\ \/ /\ queue' = queue \cup
                {JobQueuePayload(sub[s].jobId, sub[s].userId, sub[s].imageKeys)}
          /\ SetSub(s, [sub[s] EXCEPT !.pc = "done", !.resp = Resp(202, Null, Null, 0)])
       \/ /\ queue' = queue
          /\ SetSub(s, SubFail(sub[s], QueueError))
    /\ UNCHANGED <<images, albums, album_images, jobs, ex, poll, gallery>>

----------------------------------------------------------------------------
(* Pipeline Worker: POST /api/jobs/process *)

CallbackBodies ==
    {NonJsonBody} \cup
    [json : {TRUE}, jobId : IdStrings, userId : UserIdValues, imageKeys : KeyLists]

\* requestSchema.safeParse(body).success
requestSchema(body) ==
    /\ body.jobId \in Uuids
    /\ body.userId > 0
    /\ Len(body.imageKeys) >= 1

\* a body with a UUID jobId, a positive integer userId and a non-empty
\* imageKeys list
WellFormedBody(body) ==
    body.json /\ body.jobId # NotAUuid /\ body.userId >= 1 /\ body.imageKeys # <<>>

SetEx(e, r) == ex' = [ex EXCEPT ![e] = r]

\* the invocation has answered: its locals are gone
Answer(x, code, error, details, n) ==
    [x EXCEPT !.pc = "done", !.resp = Resp(code, error, details, n),
              !.userId = 0, !.imageKeys = <<>>, !.images = <<>>,
              !.albumsResult = [albums |-> <<>>], !.i = 0, !.album = 0]

\* lines 20-44: the secret check, request.json() and the schema
POST_start(x, fromQueue, during, apiSecret, body) ==
    LET x1 == [x EXCEPT !.fromQueue = fromQueue, !.hdr = apiSecret]
    IN  IF apiSecret = Null \/ apiSecret = "" \/ ~verifyApiSecret(apiSecret)
        THEN Answer(x1, 401, "Unauthorized", Null, 0)
        ELSE LET x2 == [x1 EXCEPT !.bodyOk = WellFormedBody(body)]
             IN  IF ~body.json
                 THEN Answer(x2, 500, "Internal server error", Null, 0)
                 ELSE IF ~requestSchema(body)
                 THEN Answer(x2, 400, "Invalid request", Null, 0)
                 ELSE [x2 EXCEPT !.pc = "mark_processing", !.jobId = body.jobId,
                                 !.userId = body.userId, !.imageKeys = body.imageKeys,
                                 !.during = during]

CanStart(e) ==
    /\ ex[e].pc = "idle"
    /\ \A f \in Execs : f < e => ex[f].pc # "idle"

InFlight(e, jobId) ==
    \E f \in Execs \ {e} : /\ ex[f].pc \notin {"idle", "done"}
                            /\ ex[f].marked
                            /\ ex[f].jobId = jobId

\* QStash delivers a published message to the webhook, with the secret
\* header enqueueProcessingJob attached; a message can be delivered again
QStashDeliver(e) ==
    /\ CanStart(e)
    /\ \E m \in queue :
         SetEx(e, POST_start(ex[e], TRUE, InFlight(e, m.jobId), ApiSecretKey, m))
    /\ UNCHANGED <<images, albums, album_images, jobs, queue, sub, poll, gallery>>

\* QStash delivers a message after the invocations before have answered (a
\* retry after a 500 or a lost response, or a duplicate)
QStashRetry(e) ==
    /\ \A f \in Execs : f < e => ex[f].pc = "done"
    /\ QStashDeliver(e)

\* any other client calls the webhook; it cannot name the id of a job before
\* gen_random_uuid() has produced it
DirectCall(e) ==
    /\ CanStart(e)
    /\ \E apiSecret \in HeaderValues, body \in CallbackBodies :
         /\ body.jobId \in DOMAIN jobs \cup {NotAUuid, MaxSubmit + 1}
         /\ SetEx(e, POST_start(ex[e], FALSE, InFlight(e, body.jobId), apiSecret, body))
    /\ UNCHANGED <<images, albums, album_images, jobs, queue, sub, poll, gallery>>

\* lines 46-47: jobDb.updateStatus(jobId, 'processing'); a rejected query is
\* caught by the outer catch (lines 124-130)
MarkProcessing(e) ==
    /\ ex[e].pc = "mark_processing"
    /\ \/ /\ jobs' = jobDb_updateStatus(jobs, ex[e].jobId, "processing", Null, Null)
          /\ SetEx(e, [ex[e] EXCEPT !.pc = "find_images", !.marked = TRUE])
       \/ /\ jobs' = jobs
          /\ SetEx(e, Answer(ex[e], 500, "Internal server error", Null, 0))
    /\ UNCHANGED <<images, albums, album_images, queue, sub, poll, gallery>>

\* lines 52-57 without the empty check
FindImages_noCheck(e) ==
    /\ ex[e].pc = "find_images"
    /\ \/ SetEx(e, [ex[e] EXCEPT !.pc = "generate",
                       !.images = imageDb_findByStorageKeys(images, ex[e].imageKeys)])
       \/ SetEx(e, [ex[e] EXCEPT !.pc = "mark_failed", !.err = DbError])
    /\ UNCHANGED <<images, albums, album_images, jobs, queue, sub, poll, gallery>>

\* lines 52-57: imageDb.findByStorageKeys and the empty check
FindImages(e) ==
    /\ ex[e].pc = "find_images"
    /\ \/ LET rows == imageDb_findByStorageKeys(images, ex[e].imageKeys)
          IN  IF Len(rows) = 0
              THEN SetEx(e, [ex[e] EXCEPT !.pc = "mark_failed", !.err = NoImagesError])
              ELSE SetEx(e, [ex[e] EXCEPT !.pc = "generate", !.images = rows])
       \/ SetEx(e, [ex[e] EXCEPT !.pc = "mark_failed", !.err = DbError])
    /\ UNCHANGED <<images, albums, album_images, jobs, queue, sub, poll, gallery>>

\* an album loop that leaves out the last entry
LoopNext_skipLast(x, i) ==
    IF i + 1 >= Len(x.albumsResult.albums)
    THEN [x EXCEPT !.pc = "mark_completed", !.i = 0, !.album = 0]
    ELSE [x EXCEPT !.pc = "create_album", !.i = i + 1, !.album = 0]

\* where the album loop (lines 78-98) goes after entry i
LoopNext(x, i) ==
    IF i >= Len(x.albumsResult.albums)
    THEN [x EXCEPT !.pc = "mark_completed", !.i = 0, !.album = 0]
    ELSE [x EXCEPT !.pc = "create_album", !.i = i + 1, !.album = 0]

\* lines 67-75 without the catch: the AI error reaches the outer catch
AfterGenerate_rethrow(x, r) ==
    IF r.threw THEN [x EXCEPT !.pc = "mark_failed", !.err = AiError, !.aiFailed = TRUE]
    ELSE LoopNext([x EXCEPT !.albumsResult = r.result], 0)

\* lines 67-75: the proposal, or the fallback when generateAlbums threw
AfterGenerate(x, r) ==
    LET albumsResult == IF r.threw THEN createFallbackAlbum(x.imageKeys) ELSE r.result
    IN  LoopNext([x EXCEPT !.albumsResult = albumsResult, !.aiFailed = r.threw], 0)

\* lines 59-75: the download URLs, generateAlbums and the fallback
Generate(e, replies) ==
    /\ ex[e].pc = "generate"
    /\ \/ \E reply \in replies : SetEx(e, AfterGenerate(ex[e], generateAlbums(reply)))
       \/ SetEx(e, [ex[e] EXCEPT !.pc = "mark_failed", !.err = StorageError])
    /\ UNCHANGED <<images, albums, album_images, jobs, queue, sub, poll, gallery>>

\* lines 87-90: the ids of the looked-up images whose key the entry names
ImageIds(rows, albumData) ==
    LET albumImages == SelectSeq(rows, LAMBDA img :
                                   img.storage_key \in Range(albumData.image_keys))
    IN  [k \in 1..Len(albumImages) |-> albumImages[k].id]

\* lines 79-93: albumDb.create for entry i, then the image ids
CreateAlbum(e) ==
    /\ ex[e].pc = "create_album"
    /\ LET albumData == ex[e].albumsResult.albums[ex[e].i]
       IN  \/ /\ ex[e].userId \in Users
              /\ albums' = albumDb_create(albums, ex[e].userId, albumData.title,
                                          albumData.theme, e)
              /\ IF Len(ImageIds(ex[e].images, albumData)) > 0
                 THEN SetEx(e, [ex[e] EXCEPT !.pc = "add_images",
                                             !.album = Len(albums) + 1])
                 ELSE SetEx(e, LoopNext(ex[e], ex[e].i))
           \/ /\ ex[e].userId \notin Users
              /\ albums' = albums
              /\ SetEx(e, [ex[e] EXCEPT !.pc = "mark_failed", !.err = FkError])
           \/ /\ albums' = albums
              /\ SetEx(e, [ex[e] EXCEPT !.pc = "mark_failed", !.err = DbError])
    /\ UNCHANGED <<images, album_images, jobs, queue, sub, poll, gallery>>

\* lines 92-95: albumDb.addImages
AddImages(e) ==
    /\ ex[e].pc = "add_images"
    /\ LET albumData == ex[e].albumsResult.albums[ex[e].i]
       IN  \/ /\ album_images' = albumDb_addImages(album_images, ex[e].album,
                                     ImageIds(ex[e].images, albumData), 0)
              /\ SetEx(e, LoopNext(ex[e], ex[e].i))
           \/ /\ album_images' = album_images
              /\ SetEx(e, [ex[e] EXCEPT !.pc = "mark_failed", !.err = DbError])
    /\ UNCHANGED <<images, albums, jobs, queue, sub, poll, gallery>>

\* lines 100-108 with the 'completed' write not awaited: 200 also when the
\* write is rejected
MarkCompleted_unwritten(e) ==
    /\ ex[e].pc = "mark_completed"
    /\ \/ jobs' = jobDb_updateStatus(jobs, ex[e].jobId, "completed",
                                     ex[e].albumsResult, Null)
       \/ jobs' = jobs
    /\ SetEx(e, Answer(ex[e], 200, Null, Null, Len(ex[e].albumsResult.albums)))
    /\ UNCHANGED <<images, albums, album_images, queue, sub, poll, gallery>>

\* lines 100-108: jobDb.updateStatus(jobId, 'completed', albumsResult), 200
MarkCompleted(e) ==
    /\ ex[e].pc = "mark_completed"
    /\ \/ /\ jobs' = jobDb_updateStatus(jobs, ex[e].jobId, "completed",
                                        ex[e].albumsResult, Null)
          /\ SetEx(e, Answer(ex[e], 200, Null, Null, Len(ex[e].albumsResult.albums)))
       \/ /\ jobs' = jobs
          /\ SetEx(e, [ex[e] EXCEPT !.pc = "mark_failed", !.err = DbError])
    /\ UNCHANGED <<images, albums, album_images, queue, sub, poll, gallery>>

\* a catch block that deletes the albums and links of the invocation before
\* it writes 'failed'
MarkFailed_rollback(e) ==
    /\ ex[e].pc = "mark_failed"
    /\ albums' = SelectSeq(albums, LAMBDA a : a.by # e)
    /\ album_images' = {r \in album_images :
                          \E k \in 1..Len(albums) : albums[k].id = r.album_id
                                                    /\ albums[k].by # e}
    /\ \/ /\ jobs' = jobDb_updateStatus(jobs, ex[e].jobId, "failed", Null, ex[e].err)
          /\ SetEx(e, Answer(ex[e], 500, "Processing failed", ex[e].err, 0))
       \/ /\ jobs' = jobs
          /\ SetEx(e, Answer(ex[e], 500, "Internal server error", Null, 0))
    /\ UNCHANGED <<images, queue, sub, poll, gallery>>

\* a catch block that answers 'Processing failed' without the 'failed' write
MarkFailed_unwritten(e) ==
    /\ ex[e].pc = "mark_failed"
    /\ jobs' = jobs
    /\ \/ SetEx(e, Answer(ex[e], 500, "Processing failed", ex[e].err, 0))
       \/ SetEx(e, Answer(ex[e], 500, "Internal server error", Null, 0))
    /\ UNCHANGED <<images, albums, album_images, queue, sub, poll, gallery>>

\* lines 109-123: jobDb.updateStatus(jobId, 'failed', undefined, errorMessage),
\* 500; a rejected query is caught by the outer catch (lines 124-130)
MarkFailed(e) ==
    /\ ex[e].pc = "mark_failed"
    /\ \/ /\ jobs' = jobDb_updateStatus(jobs, ex[e].jobId, "failed", Null, ex[e].err)
          /\ SetEx(e, Answer(ex[e], 500, "Processing failed", ex[e].err, 0))
       \/ /\ jobs' = jobs
          /\ SetEx(e, Answer(ex[e], 500, "Internal server error", Null, 0))
    /\ UNCHANGED <<images, albums, album_images, queue, sub, poll, gallery>>

----------------------------------------------------------------------------
(* Status Resolver: GET /api/jobs/[jobId]/status *)

\* a pattern that every string matches
uuidRegex_any(jobId) == TRUE

\* uuidRegex.test(jobId)
uuidRegex(jobId) == jobId \in Uuids

jobDb_findById(J, id) == IF id \in DOMAIN J THEN <<J[id]>> ELSE <<>>

PollResp(code, id, status, completedAt, error, resultUrl) ==
    [code |-> code, id |-> id, status |-> status, completedAt |-> completedAt,
     error |-> error, resultUrl |-> resultUrl]

\* GET that sets resultUrl for every finished job
GET_urlWhenFinished(J, jobId, queryOk) ==
    IF jobId \notin Uuids \/ ~queryOk \/ jobId \notin DOMAIN J
    THEN PollResp(IF jobId \notin Uuids THEN 400 ELSE IF ~queryOk THEN 500 ELSE 404,
                  jobId, Null, Null, Null, <<>>)
    ELSE PollResp(200, jobId, J[jobId].status, J[jobId].completed_at,
                  J[jobId].error_message,
                  IF J[jobId].status \in {"completed", "failed"}
                  THEN <<"/api/galleries/", J[jobId].user_id>> ELSE <<>>)

\* the response; queryOk is whether the SELECT returned
GET(J, jobId, queryOk) ==
    IF ~uuidRegex(jobId) THEN PollResp(400, jobId, Null, Null, Null, <<>>)
    ELSE IF ~queryOk THEN PollResp(500, jobId, Null, Null, Null, <<>>)
    ELSE LET found == jobDb_findById(J, jobId)
         IN  IF found = <<>> THEN PollResp(404, jobId, Null, Null, Null, <<>>)
             ELSE LET job == found[1]
                  IN  PollResp(200, jobId, job.status, job.completed_at,
                               job.error_message,
                               IF job.status = "completed"
                               THEN <<"/api/galleries/", job.user_id>>
                               ELSE <<>>)

Poll ==
    /\ \E jobId \in IdStrings, queryOk \in BOOLEAN : poll' = GET(jobs, jobId, queryOk)
    /\ UNCHANGED <<images, albums, album_images, jobs, queue, sub, ex, gallery>>

----------------------------------------------------------------------------
(* Gallery fetch: GET /api/galleries/[galleryId] *)

\* parseInt of a string that does not start with an integer
NaN == -1

\* params.galleryId: lead is the integer the string starts with (NaN when
\* it starts with none), tail the characters after it
GalleryIds == [lead : UserIdValues \cup {NaN}, tail : {"", "abc"}]

\* parseInt(galleryId, 10): the leading integer, whatever follows it
parseInt(galleryId) == galleryId.lead

\* the links of a set in ORDER BY display_order
RECURSIVE OrderByDisplayOrder(_)
OrderByDisplayOrder(links) ==
    IF links = {} THEN <<>>
    ELSE LET first == CHOOSE r \in links :
                        \A q \in links : r.display_order <= q.display_order
         IN  <<first>> \o OrderByDisplayOrder(links \ {first})

\* the rows of a sequence in reverse order
Reverse(rows) == [k \in 1..Len(rows) |-> rows[Len(rows) + 1 - k]]

\* albumDb.getAlbumsWithImagesByUserId with INNER JOINs: the albums that
\* have a link
albumDb_getAlbumsWithImagesByUserId_inner(A, L, I, userId) ==
    LET rows == Reverse(SelectSeq(A, LAMBDA a :
                    a.user_id = userId /\ \E r \in L : r.album_id = a.id))
        joined(a) == OrderByDisplayOrder({r \in L : r.album_id = a.id})
    IN  [k \in 1..Len(rows) |->
           [id |-> rows[k].id, user_id |-> rows[k].user_id, title |-> rows[k].title,
            theme_description |-> rows[k].theme_description,
            images |-> [n \in 1..Len(joined(rows[k])) |->
                          [id |-> joined(rows[k])[n].image_id,
                           storage_key |-> I[joined(rows[k])[n].image_id].storage_key]]]]

\* albumDb.getAlbumsWithImagesByUserId: the user's albums, newest first, each
\* with the json_agg of its LEFT JOINed images by display_order; an album
\* without links has one image of nulls (id 0)
albumDb_getAlbumsWithImagesByUserId(A, L, I, userId) ==
    LET rows == Reverse(SelectSeq(A, LAMBDA a : a.user_id = userId))
        joined(a) == OrderByDisplayOrder({r \in L : r.album_id = a.id})
        agg(a) == IF joined(a) = <<>> THEN <<[id |-> 0, storage_key |-> Null]>>
                  ELSE [k \in 1..Len(joined(a)) |->
                          [id |-> joined(a)[k].image_id,
                           storage_key |-> I[joined(a)[k].image_id].storage_key]]
    IN  [k \in 1..Len(rows) |->
           [id |-> rows[k].id, user_id |-> rows[k].user_id, title |-> rows[k].title,
            theme_description |-> rows[k].theme_description, images |-> agg(rows[k])]]

GalleryResp(code, userId, albumsWithUrls) ==
    [code |-> code, userId |-> userId, albums |-> albumsWithUrls]

\* the response; queryOk is whether the SELECT and the URL signing returned
GalleryGET(A, L, I, galleryId, queryOk) ==
    LET userId == parseInt(galleryId)
    IN  IF userId = NaN \/ userId <= 0 THEN GalleryResp(400, 0, <<>>)
        ELSE IF ~queryOk THEN GalleryResp(500, userId, <<>>)
        ELSE LET albumsWithImages ==
                     albumDb_getAlbumsWithImagesByUserId(A, L, I, userId)
                 imagesWithUrls(album) ==
                     LET kept == SelectSeq(album.images, LAMBDA image : image.id # 0)
                     IN  [k \in 1..Len(kept) |->
                            [id |-> kept[k].id, user_id |-> userId,
                             storage_key |-> kept[k].storage_key]]
             IN  GalleryResp(200, userId,
                     [k \in 1..Len(albumsWithImages) |->
                        [albumsWithImages[k] EXCEPT
                           !.images = imagesWithUrls(albumsWithImages[k])]])

GalleryFetch ==
    /\ \E galleryId \in GalleryIds, queryOk \in BOOLEAN :
         gallery' = GalleryGET(albums, album_images, images, galleryId, queryOk)
    /\ UNCHANGED <<images, albums, album_images, jobs, queue, sub, ex, poll>>

----------------------------------------------------------------------------

\* the steps of a webhook invocation after its start
Steps(e, replies) ==
    \/ MarkProcessing(e)
    \/ FindImages(e)
    \/ Generate(e, replies)
    \/ CreateAlbum(e)
    \/ AddImages(e)
    \/ MarkCompleted(e)
    \/ MarkFailed(e)

Submit(s) ==
    \/ SubmitStart(s)
    \/ SubmitRegister(s)
    \/ SubmitCreateJob(s)
    \/ SubmitEnqueue(s)

\* Spec: the submissions and the deliveries of their messages by the queue,
\* which delivers a message as often as there are invocations (duplicates
\* and retries)
Next ==
    \/ \E s \in Submits : Submit(s)
    \/ \E e \in Execs : QStashDeliver(e)
    \/ \E e \in Execs : Steps(e, AIRepliesUpTo(1))

Spec == Init /\ [][Next]_vars

\* SpecCall: one invocation of the webhook, by the queue or by any client
\* with any header and body, and any reply of the AI model
NextCall ==
    \/ \E s \in Submits : Submit(s)
    \/ QStashDeliver(1)
    \/ DirectCall(1)
    \/ \E e \in Execs : Steps(e, AIReplies)

SpecCall == Init /\ [][NextCall]_vars

\* SpecPoll: the status route polled at any time while the submissions are
\* processed; the AI model fails or proposes no album
NextPoll ==
    \/ \E s \in Submits : Submit(s)
    \/ \E e \in Execs : QStashDeliver(e)
    \/ \E e \in Execs : Steps(e, AIRepliesUpTo(0))
    \/ Poll

SpecPoll == Init /\ [][NextPoll]_vars

\* proposals of up to n albums whose key lists are among lists, and a failure
Proposals(lists, n) ==
    {[kind |-> "error", hasAlbums |-> FALSE, albums |-> <<>>]}
    \cup {[kind |-> "json", hasAlbums |-> TRUE, albums |-> a] :
            a \in SeqsUpTo([title : {"Trip"}, theme : {"Sunny"},
                            keysIsArray : {TRUE}, image_keys : lists], n)}

\* SpecGallery: the submissions, the deliveries of their messages one after
\* the other (a message is delivered again after the invocation before has
\* answered) and the gallery route fetched at any time; the AI model fails
\* or proposes up to MaxAlbums albums of one key each
NextGallery ==
    \/ \E s \in Submits : Submit(s)
    \/ \E e \in Execs : QStashRetry(e)
    \/ \E e \in Execs : Steps(e, Proposals({<<key>> : key \in Keys}, MaxAlbums))
    \/ GalleryFetch

SpecGallery == Init /\ [][NextGallery]_vars

\* SpecSubmit: MaxConc requests to the job-submission route, overlapping or
\* not, and one delivery by the queue of one of their messages; the AI model
\* fails or proposes at most one album
InitSubmit ==
    /\ images = <<>>
    /\ albums = <<>>
    /\ album_images = {}
    /\ jobs = <<>>
    /\ queue = {}
    /\ sub = [s \in 1..MaxConc |-> IdleSub]
    /\ ex = [e \in Execs |-> IdleExec]
    /\ poll = NoPoll
    /\ gallery = NoGallery

NextSubmit ==
    \/ \E s \in 1..MaxConc : Submit(s)
    \/ QStashDeliver(1)
    \/ \E e \in Execs : Steps(e, AIRepliesUpTo(1))

SpecSubmit == InitSubmit /\ [][NextSubmit]_vars

\* the first delivery of a message, and its delivery again after the
\* invocation before answered with a non-2xx status (retries: 3)
QStashRedeliver(e) ==
    /\ \A f \in Execs : f < e => ex[f].resp.code # 200
    /\ QStashRetry(e)

\* SpecLive: the submissions and the deliveries of their messages one after
\* the other; the AI model fails or proposes at most one album.  The queue
\* delivers a published message, and delivers it again after a non-2xx answer
\* while attempts are left; an invocation whose awaited call returns, with a
\* result or an error, runs on to its next await or to its answer
NextLive ==
    \/ \E s \in Submits : Submit(s)
    \/ \E e \in Execs : QStashRetry(e)
    \/ \E e \in Execs : Steps(e, AIRepliesUpTo(1))

Fairness ==
    \A e \in Execs : /\ WF_vars(QStashRedeliver(e))
                     /\ WF_vars(Steps(e, AIRepliesUpTo(1)))

SpecLive == Init /\ [][NextLive]_vars /\ Fairness

----------------------------------------------------------------------------
(* Properties *)

Acts(e) == ex'[e] # ex[e]

Exists(id) == id \in DOMAIN jobs

AlbumsBy(E) == {k \in 1..Len(albums) : albums[k].by \in E}

\* C1: for every job and every interleaving of deliveries, the status never
\* regresses: processing does not return to pending, and completed or failed
\* never changes again.
C1_StatusNeverRegresses ==
    [][\A id \in DOMAIN jobs :
         /\ jobs[id].status = "processing" => jobs'[id].status # "pending"
         /\ jobs[id].status \in {"completed", "failed"}
              => jobs'[id].status = jobs[id].status]_vars

\* C2: no job skips processing: an invocation writes completed or failed only
\* after its own write of processing has returned, and no step takes a job
\* from pending to completed or failed.
C2_NeverSkipsProcessing ==
    [][/\ \A id \in DOMAIN jobs :
            jobs[id].status = "pending" => jobs'[id].status \in {"pending", "processing"}
       /\ \A e \in Execs :
            (Acts(e) /\ ex[e].pc \in {"mark_completed", "mark_failed"} /\ jobs' # jobs)
              => (ex[e].marked /\ jobs[ex[e].jobId].status # "pending")]_vars

C2_Witness ==
    \E e \in Execs : /\ ex[e].resp.code = 200
                     /\ Exists(ex[e].jobId)
                     /\ jobs[ex[e].jobId].status = "completed"

\* C3: when a job's callback is delivered twice and the second delivery
\* starts while the first is still processing, the two invocations together
\* create the albums of a single proposal only.
C3_OneSetOfAlbums ==
    \A e1, e2 \in Execs :
        (/\ e1 # e2
         /\ ex[e2].during
         /\ ex[e1].jobId = ex[e2].jobId
         /\ ex[e1].resp.code = 200
         /\ ex[e2].resp.code = 200)
          => \/ Cardinality(AlbumsBy({e1, e2})) = ex[e1].resp.albumsCreated
             \/ Cardinality(AlbumsBy({e1, e2})) = ex[e2].resp.albumsCreated

\* C4: a callback whose X-API-Secret header is missing or is not the
\* configured secret is answered 401 and changes no job, album, link, image
\* or message, then and afterwards.
C4_UnauthorizedChangesNothing ==
    [][\A e \in Execs :
         /\ (ex[e].pc = "idle" /\ ex'[e].pc # "idle" /\ ex'[e].hdr # ApiSecretKey)
              => /\ ex'[e].pc = "done"
                 /\ ex'[e].resp.code = 401
                 /\ UNCHANGED <<images, albums, album_images, jobs, queue>>
         /\ ex[e].resp.code = 401 => ex'[e] = ex[e]]_vars

C4_Witness ==
    \E e \in Execs : /\ ex[e].resp.code = 401
                     /\ ex[e].hdr = "wrong"
                     /\ \E id \in DOMAIN jobs : jobs[id].status = "pending"

\* C5: an authenticated callback whose body has no UUID jobId, positive
\* integer userId and non-empty imageKeys list is answered 400.
C5_InvalidBodyIs400 ==
    \A e \in Execs :
        (ex[e].pc = "done" /\ ex[e].hdr = ApiSecretKey /\ ~ex[e].bodyOk)
          => ex[e].resp.code = 400

\* C6: a failure of the AI adapter never fails the job: the invocation goes
\* on with the fallback proposal, the only errors it can still meet are those
\* of its database steps, and when it meets none it creates the one fallback
\* album, writes completed and answers 200.
C6_AiFailureCompletes ==
    [][\A e \in Execs :
         /\ (ex[e].pc = "generate" /\ ex'[e].aiFailed)
              => /\ ex'[e].pc = "create_album"
                 /\ Len(ex'[e].albumsResult.albums) = 1
                 /\ ex'[e].albumsResult.albums[1].title = FallbackTitle
         /\ ex'[e].aiFailed => ex'[e].err \in {Null, DbError, FkError}
         /\ (ex'[e].aiFailed /\ ex[e].pc # "done" /\ ex'[e].pc = "done" /\ ex'[e].err = Null)
              => /\ ex[e].pc = "mark_completed"
                 /\ ex'[e].resp.code = 200
                 /\ jobs'[ex[e].jobId].status = "completed"
                 /\ \E k \in 1..Len(albums) :
                      /\ albums[k].by = e
                      /\ albums[k].title = FallbackTitle
                      /\ \A l \in 1..Len(albums) : albums[l].by = e => l = k]_vars

C6_Witness ==
    \E e \in Execs : /\ ex[e].aiFailed
                     /\ ex[e].resp.code = 200
                     /\ jobs[ex[e].jobId].status = "completed"

HasFallback(e) ==
    ex[e].aiFailed /\ ex[e].pc \in {"create_album", "add_images", "mark_completed"}

Occurrences(keys, key) == Cardinality({p \in 1..Len(keys) : keys[p] = key})

\* C7 as stated, for the callbacks the queue delivers: whenever the AI
\* adapter fails, the proposal is a single fallback album whose key list is
\* the key list submitted with the job at its creation, each key exactly once.
C7_FallbackIsSubmittedKeysOnce ==
    \A e \in Execs :
        (HasFallback(e) /\ ex[e].fromQueue /\ Exists(ex[e].jobId))
          => LET a == ex[e].albumsResult.albums
             IN  /\ Len(a) = 1
                 /\ a[1].image_keys = jobs[ex[e].jobId].image_keys
                 /\ \A key \in Range(a[1].image_keys) :
                      Occurrences(a[1].image_keys, key) = 1

\* C7 amended: whenever the AI adapter fails, the proposal materialized and
\* stored is a single fallback album whose key list is the imageKeys list of
\* the callback body, unchanged (a key listed twice stays listed twice); for
\* a callback delivered by the queue that list is the job's image_keys.
C7_FallbackIsPayloadKeys ==
    [][\A e \in Execs :
         /\ (ex'[e].aiFailed /\ ex'[e].pc \in {"create_album", "add_images", "mark_completed"})
              => /\ ex'[e].albumsResult =
                      [albums |-> <<[title |-> FallbackTitle, theme |-> FallbackTheme,
                                     image_keys |-> ex'[e].imageKeys]>>]
                 /\ ex'[e].fromQueue
                      => ex'[e].imageKeys = jobs'[ex'[e].jobId].image_keys
         /\ (ex[e].aiFailed /\ ex[e].pc = "create_album" /\ albums' # albums)
              => /\ albums'[Len(albums')].title = FallbackTitle
                 /\ albums'[Len(albums')].theme_description = FallbackTheme
         /\ (ex[e].aiFailed /\ ex[e].pc = "mark_completed" /\ ex'[e].resp.code = 200
                /\ Exists(ex[e].jobId))
              => jobs'[ex[e].jobId].result_data =
                   <<[albums |-> <<[title |-> FallbackTitle, theme |-> FallbackTheme,
                                    image_keys |-> ex[e].imageKeys]>>]>>]_vars

C7_Witness ==
    \E e \in Execs :
        /\ ex[e].aiFailed
        /\ ex[e].fromQueue
        /\ ex[e].resp.code = 200
        /\ jobs[ex[e].jobId].status = "completed"
        /\ LET keys == jobs[ex[e].jobId].result_data[1].albums[1].image_keys
           IN  Len(keys) = 2 /\ keys[1] = keys[2]

InnerTry == {"find_images", "generate", "create_album", "add_images", "mark_completed"}

\* C8 as stated: when a step after the transition to processing raises an
\* error other than an AI failure, the job ends failed with error_message the
\* error's message, and the callback answers 500.
C8_ErrorEndsFailed ==
    [][\A e \in Execs :
         (Acts(e) /\ ex[e].pc = "mark_failed")
           => /\ ex'[e].resp.code = 500
              /\ jobs'[ex[e].jobId].status = "failed"
              /\ jobs'[ex[e].jobId].error_message = ex[e].err]_vars

\* C8 amended: when a step after the transition to processing raises an
\* error other than an AI failure, the invocation writes failed with the
\* error's message next and answers 500: either that write returns, the job
\* is failed with error_message the error's message and the answer is
\* 'Processing failed' with the message, or that write raises too, no row
\* changes and the answer is 'Internal server error'.
C8_ErrorWritesFailedOr500 ==
    [][\A e \in Execs :
         /\ (Acts(e) /\ ex[e].pc \in InnerTry /\ ex'[e].err # Null)
              => (ex'[e].pc = "mark_failed" /\ jobs' = jobs)
         /\ (Acts(e) /\ ex[e].pc = "mark_failed")
              => /\ ex'[e].pc = "done"
                 /\ ex'[e].resp.code = 500
                 /\ \/ /\ ex'[e].resp.error = "Processing failed"
                       /\ ex'[e].resp.details = ex[e].err
                       /\ jobs'[ex[e].jobId].status = "failed"
                       /\ jobs'[ex[e].jobId].error_message = ex[e].err
                    \/ /\ ex'[e].resp.error = "Internal server error"
                       /\ UNCHANGED <<images, albums, album_images, jobs>>]_vars

C8_Witness ==
    \E e1, e2 \in Execs :
        /\ ex[e1].resp.error = "Processing failed"
        /\ ex[e1].err = DbError
        /\ ex[e2].resp.error = "Internal server error"
        /\ ex[e2].err = DbError
        /\ jobs[ex[e2].jobId].status = "processing"

\* C9: in every status-poll response for an existing job, resultUrl is
\* present if and only if the job's persisted status is completed.
C9_ResultUrlIffCompleted ==
    [][(poll' # poll /\ poll'.code = 200)
         => /\ Exists(poll'.id)
            /\ poll'.status = jobs[poll'.id].status
            /\ (poll'.resultUrl # <<>>) <=> (jobs[poll'.id].status = "completed")
            /\ poll'.resultUrl # <<>>
                 => poll'.resultUrl = <<"/api/galleries/", jobs[poll'.id].user_id>>]_vars

C9_Witness ==
    /\ poll.code = 200
    /\ poll.status = "completed"
    /\ poll.resultUrl # <<>>
    /\ jobs[poll.id].status = "completed"

\* C10 as stated, for the polls whose lookup returns: the status poll
\* answers 404 when the id is not a well formed identifier and when no job
\* has it, and 200 with the job's status in every other case.
C10_Poll404Or200 ==
    [][(poll' # poll /\ poll'.code # 500)
         => IF poll'.id \in Uuids /\ Exists(poll'.id)
            THEN poll'.code = 200 /\ poll'.status = jobs[poll'.id].status
            ELSE poll'.code = 404]_vars

\* C10 amended: the status poll answers 400 when the id is not a well formed
\* UUID; for a well formed id it answers 500 when the lookup raises, else 404
\* when no job has the id, else 200 with the job's current status.
C10_Poll400_404_500_200 ==
    [][poll' # poll
         => IF poll'.id \notin Uuids THEN poll'.code = 400
            ELSE \/ poll'.code = 500
                 \/ /\ ~Exists(poll'.id)
                    /\ poll'.code = 404
                 \/ /\ Exists(poll'.id)
                    /\ poll'.code = 200
                    /\ poll'.status = jobs[poll'.id].status]_vars

C10_Witness ==
    /\ poll.code = 400
    /\ poll.id = NotAUuid
    /\ \E id \in DOMAIN jobs : jobs[id].status = "processing"

\* the positions of the rows of the images table with a storage key
RowsOf(key) == {k \in 1..Len(images) : images[k].storage_key = key}

\* the request got past its Promise.all of imageDb.create calls
Registered(s) ==
    sub[s].pc \in {"create_job", "enqueue"} \/ sub[s].resp.code = 202

\* C11: image registration is idempotent per storage key: whatever requests
\* are submitted, overlapping in time or in keys, no storage key has two
\* image rows, every key of a request whose registration went through has
\* exactly one row, an existing row is never changed, and a key that is
\* registered already never makes the request fail.
C11_RegistrationIdempotent ==
    [][/\ \A key \in Keys : Cardinality(RowsOf(key)') <= 1
       /\ \A s \in DOMAIN sub :
            Registered(s)' =>
              \A key \in Range(sub'[s].imageKeys) : Cardinality(RowsOf(key)') = 1
       /\ \A k \in 1..Len(images) : Len(images') >= k /\ images'[k] = images[k]
       /\ \A s \in DOMAIN sub : sub'[s].cause # "23505"]_vars

C11_Witness ==
    \E s, t \in DOMAIN sub :
        /\ s # t
        /\ sub[s].resp.code = 202
        /\ sub[t].resp.code = 202
        /\ Range(sub[s].imageKeys) \cap Range(sub[t].imageKeys) # {}
        /\ \E p, q \in 1..Len(sub[t].imageKeys) :
              p # q /\ sub[t].imageKeys[p] = sub[t].imageKeys[q]

\* a JSON body of user 1 with n keys
BodyOfLen(n) ==
    [json |-> TRUE, jobId |-> NotAUuid, userId |-> 1, imageKeys |-> [k \in 1..n |-> "a.jpg"]]

\* C12: job creation accepts only a key list of 1 to maxBatchSize (50) keys:
\* a request with any other list ends at once without 202, creates no job
\* and publishes no message; every job row is created by a request with such
\* a list, holds that list, and starts pending with started_at, completed_at,
\* result_data and error_message unset; every message is published for a
\* created job.
C12_JobCreationBounds ==
    [][/\ submitSchema(BodyOfLen(1)) /\ submitSchema(BodyOfLen(maxBatchSize))
       /\ ~submitSchema(BodyOfLen(0)) /\ ~submitSchema(BodyOfLen(maxBatchSize + 1))
       /\ \A s \in DOMAIN sub :
            /\ (sub[s].pc = "idle" /\ sub'[s].pc # "idle"
                   /\ sub'[s].len \notin 1..maxBatchSize)
                 => /\ sub'[s].pc = "done"
                    /\ sub'[s].resp.code \in {400, 500}
                    /\ sub'[s].todo = {}
                    /\ UNCHANGED <<images, jobs, queue>>
            /\ (sub[s].pc = "done" /\ sub[s].todo = {}) => sub'[s] = sub[s]
       /\ \A id \in DOMAIN jobs' \ DOMAIN jobs :
            \E s \in DOMAIN sub :
                /\ sub[s].pc = "create_job"
                /\ sub'[s].jobId = id
                /\ sub[s].len \in 1..maxBatchSize
                /\ Len(sub[s].imageKeys) = sub[s].len
                /\ jobs'[id] = [user_id |-> sub[s].userId, status |-> "pending",
                                image_keys |-> sub[s].imageKeys,
                                result_data |-> <<>>, error_message |-> Null,
                                started_at |-> Null, completed_at |-> Null]
       /\ \A m \in queue' \ queue :
            \E s \in DOMAIN sub : /\ sub[s].pc = "enqueue"
                                   /\ m.jobId = sub[s].jobId
                                   /\ m.jobId \in DOMAIN jobs
                                   /\ m.imageKeys = jobs[m.jobId].image_keys]_vars

C12_Witness ==
    \E s, t \in DOMAIN sub :
        /\ sub[s].len = maxBatchSize + 1
        /\ sub[s].resp.code = 400
        /\ sub[t].len = MaxLen
        /\ sub[t].jobId \in DOMAIN jobs
        /\ jobs[sub[t].jobId].status = "pending"
        /\ Cardinality(DOMAIN jobs) = 1

\* the job row that jobDb.create returned to request s
JobOf(s) == sub[s].jobId

\* C13: when publishing the job's message fails, the request is answered 500
\* (not 202), nothing else is written at that step (no compensation), and
\* from then on the job row stays exactly as created, in status pending: no
\* message for it is in the queue and no invocation of the webhook is for it.
C13_PublishFailureLeavesPending ==
    [][\A s \in DOMAIN sub :
         /\ (sub[s].pc = "enqueue" /\ sub'[s].pc # "enqueue" /\ queue' = queue)
              => /\ sub'[s].cause = QueueError
                 /\ sub'[s].resp.code = 500
                 /\ JobOf(s)' = JobOf(s)
                 /\ UNCHANGED <<images, albums, album_images, jobs, ex>>
         /\ sub'[s].cause = QueueError
              => /\ sub'[s].resp.code = 500
                 /\ JobOf(s)' \in DOMAIN jobs'
                 /\ jobs'[JobOf(s)'].status = "pending"
                 /\ jobs'[JobOf(s)'].started_at = Null
                 /\ \A m \in queue' : m.jobId # JobOf(s)'
                 /\ \A e \in Execs : ex'[e].jobId # JobOf(s)']_vars

C13_Witness ==
    \E s, t \in DOMAIN sub, e \in Execs :
        /\ sub[s].cause = QueueError
        /\ jobs[JobOf(s)].status = "pending"
        /\ sub[t].resp.code = 202
        /\ ex[e].jobId = JobOf(t)
        /\ ex[e].resp.code = 200
        /\ jobs[JobOf(t)].status = "completed"

\* the proposal entry an invocation is materializing
Entry(e) == ex[e].albumsResult.albums[ex[e].i]

\* C14: every link inserted for a proposal entry has as display_order the
\* index of its image's storage key in the entry's image_keys list.
C14_DisplayOrderIsProposalIndex ==
    [][\A e \in Execs :
         ex[e].pc = "add_images"
           => \A r \in album_images' \ album_images :
                /\ r.display_order < Len(Entry(e).image_keys)
                /\ Entry(e).image_keys[r.display_order + 1]
                     = images[r.image_id].storage_key]_vars

\* C15: whatever keys the AI proposal names, every image linked to an album
\* that an invocation created has a storage key of the image_keys of the
\* invocation's job.
C15_LinksWithinJobKeys ==
    \A r \in album_images :
        LET e == albums[r.album_id].by
        IN  /\ ex[e].jobId \in DOMAIN jobs
            /\ images[r.image_id].storage_key \in Range(jobs[ex[e].jobId].image_keys)

C15_Witness ==
    \E e \in Execs :
        /\ ex[e].pc = "mark_completed"
        /\ ~ex[e].aiFailed
        /\ \E r \in album_images : albums[r.album_id].by = e
        /\ \E key \in Range(ex[e].albumsResult.albums[1].image_keys) :
              /\ key \notin Range(jobs[ex[e].jobId].image_keys)
              /\ RowsOf(key) # {}

\* the proposal puts every key of the list in exactly one entry and names no
\* other key
Partitions(proposal, keys) ==
    /\ \A k \in 1..Len(proposal) :
         /\ proposal[k].image_keys # <<>>
         /\ Range(proposal[k].image_keys) \subseteq Range(keys)
    /\ \A key \in Range(keys) :
         Cardinality({k \in 1..Len(proposal) : key \in Range(proposal[k].image_keys)}) = 1

\* the places of a gallery response that show an image with a storage key
Shown(g, key) ==
    {<<k, n>> \in (1..Len(g.albums)) \X (1..MaxLen) :
        n <= Len(g.albums[k].images) /\ g.albums[k].images[n].storage_key = key}

\* the gallery the resultUrl of a status poll of job id points to
GalleryAtResultUrl(id) ==
    GalleryGET(albums, album_images, images,
               [lead |-> GET(jobs, id, TRUE).resultUrl[2], tail |-> ""], TRUE)

\* the albums of the user are those of one invocation that answered 200 for
\* job id
OnlyAlbumsOfUser(id) ==
    \E e \in Execs :
        /\ ex[e].jobId = id
        /\ ex[e].resp.code = 200
        /\ \A k \in 1..Len(albums) : albums[k].user_id = jobs[id].user_id => albums[k].by = e

C17_OwnershipChecked ==
    [][\A e \in Execs :
         (Acts(e) /\ (jobs' # jobs \/ albums' # albums))
           => /\ ex[e].jobId \in DOMAIN jobs
              /\ ex[e].userId = jobs[ex[e].jobId].user_id]_vars

\* a non-empty list of albums, each with a title, a theme and a non-empty
\* key list
WellFormedProposal(proposal) ==
    /\ proposal # <<>>
    /\ \A k \in 1..Len(proposal) : /\ proposal[k].title # ""
                                     /\ proposal[k].theme # ""
                                     /\ proposal[k].image_keys # <<>>

\* C18: a parsed reply whose album list is empty, or one of whose albums has
\* a blank title, a blank theme or an empty key list, is rejected by the AI
\* adapter: it is never the proposal an invocation materializes and never
\* stored as result_data.
C18_MalformedReplyRejected ==
    /\ \A e \in Execs :
         ex[e].pc \in {"create_album", "add_images", "mark_completed"}
           => WellFormedProposal(ex[e].albumsResult.albums)
    /\ \A id \in DOMAIN jobs :
         jobs[id].result_data # <<>>
           => WellFormedProposal(jobs[id].result_data[1].albums)

\* the album rows an invocation created, in the order it created them
AlbumRowsBy(e) == SelectSeq(albums, LAMBDA a : a.by = e)

\* the images linked to an album
LinkedTo(albumId) == {r.image_id : r \in {q \in album_images : q.album_id = albumId}}

\* C19: an invocation that answers 200 has created exactly one album row per
\* entry of its proposal, in order and with the entry's title, reports
\* albumsCreated as the number of entries, and has linked to each album the
\* images it looked up whose key the entry names and nothing else: an entry
\* key without such an image is dropped and fails nothing.
C19_OneAlbumPerEntry ==
    [][\A e \in Execs :
         (ex[e].pc = "mark_completed" /\ ex'[e].resp.code = 200)
           => LET proposal == ex[e].albumsResult.albums
              IN  /\ ex'[e].resp.albumsCreated = Len(proposal)
                  /\ Len(AlbumRowsBy(e)) = Len(proposal)
                  /\ \A k \in 1..Len(proposal) :
                       /\ AlbumRowsBy(e)[k].title = proposal[k].title
                       /\ LinkedTo(AlbumRowsBy(e)[k].id)
                            = {ex[e].images[n].id : n \in
                                 {m \in 1..Len(ex[e].images) :
                                    ex[e].images[m].storage_key
                                      \in Range(proposal[k].image_keys)}}]_vars

C19_Witness ==
    \E e \in Execs :
        /\ ex[e].resp.code = 200
        /\ ex[e].resp.albumsCreated = 2
        /\ ex[e].fromQueue
        /\ Len(AlbumRowsBy(e)) = 2
        /\ LinkedTo(AlbumRowsBy(e)[1].id) = {}
        /\ LinkedTo(AlbumRowsBy(e)[2].id) # {}
        /\ \E key \in Range(jobs[ex[e].jobId].result_data[1].albums[2].image_keys) :
              RowsOf(key) = {}

\* C20: among the albums one invocation (of a callback the queue delivered)
\* created from its proposal, no image is linked to more than one album,
\* whatever proposal the AI adapter returned.
C20_ImageInOneAlbum ==
    \A e \in Execs : \A id \in 1..Len(images) :
        ex[e].fromQueue
          => Cardinality({k \in AlbumsBy({e}) : id \in LinkedTo(albums[k].id)}) <= 1

----------------------------------------------------------------------------
(* Frame of the status writes *)

\* the columns of job id that a step changed
Written(id) ==
    {c \in DOMAIN jobs[id] : jobs'[id][c] # jobs[id][c]}

\* C21: result_data is written only by the transition to completed and
\* error_message only by the transition to failed; the transition to
\* processing leaves result_data, error_message and completed_at as they
\* were, the transition to completed leaves error_message, the transition to
\* failed leaves result_data, and no transition changes image_keys or user_id
C21_FrameOfStatusWrites ==
    [][\A id \in DOMAIN jobs :
         /\ id \in DOMAIN jobs'
         /\ Written(id) \cap {"image_keys", "user_id"} = {}
         /\ "result_data" \in Written(id) => jobs'[id].status = "completed"
         /\ "error_message" \in Written(id) => jobs'[id].status = "failed"
         /\ \A e \in Execs :
              /\ ex[e].pc = "mark_processing" /\ ex'[e].pc = "find_images"
                   => Written(id) \subseteq {"status", "started_at"}
              /\ ex[e].pc = "mark_completed" /\ ex'[e].pc = "done"
                   => Written(id) \subseteq {"status", "completed_at", "result_data"}
              /\ ex[e].pc = "mark_failed" /\ ex'[e].pc = "done"
                   => Written(id) \subseteq {"status", "completed_at", "error_message"}]_vars

\* a job taken to processing again that still carries the error message and
\* the completion time of the attempt before
C21_Witness ==
    \E id \in DOMAIN jobs :
        /\ jobs[id].status = "processing"
        /\ jobs[id].error_message # Null
        /\ jobs[id].completed_at # Null
        /\ \E e \in Execs : ex[e].jobId = id /\ ex[e].pc = "find_images"

----------------------------------------------------------------------------
(* No rollback across the album, link and status writes *)

----------------------------------------------------------------------------
(* Columns of a finished job *)

\* C23: a completed job has no error_message and a failed job has no
\* result_data, also after a retry that follows a failed attempt; a status
\* poll of a completed job carries no error field
C23_ResultXorError ==
    /\ \A id \in DOMAIN jobs :
         /\ jobs[id].status = "completed" => jobs[id].error_message = Null
         /\ jobs[id].status = "failed" => jobs[id].result_data = <<>>
    /\ (poll.code = 200 /\ poll.status = "completed") => poll.error = Null

\* C24: completed_at is set exactly when the status is completed or failed,
\* and started_at exactly when the status is not pending; a job in status
\* processing never has completed_at set
C24_TimestampsMatchStatus ==
    \A id \in DOMAIN jobs :
        /\ jobs[id].completed_at # Null <=> jobs[id].status \in {"completed", "failed"}
        /\ jobs[id].started_at # Null <=> jobs[id].status # "pending"

----------------------------------------------------------------------------
(* Callbacks for a job that is not in the job store *)

\* C25: an authenticated, well-formed callback whose jobId matches no job
\* row creates no album and no link and does not answer 200
C25_NoAlbumsWithoutJob ==
    \A e \in Execs :
        (/\ ex[e].pc # "idle"
         /\ ex[e].hdr = ApiSecretKey
         /\ ex[e].bodyOk
         /\ ~Exists(ex[e].jobId))
          => /\ AlbumRowsBy(e) = <<>>
             /\ ex[e].resp.code # 200

----------------------------------------------------------------------------
(* No image found for the keys of a callback *)

\* the invocation found no image row for its keys and is in its catch block
NoImagesFound(e) == ex[e].pc = "mark_failed" /\ ex[e].err = NoImagesError

\* C26 as stated: when no key of the callback resolves to an image row, the
\* invocation creates no album, makes no AI call, moves the job to failed with
\* the message 'No images found for the provided keys' and answers 500
C26_NoImagesEndsFailed ==
    [][\A e \in Execs :
         (NoImagesFound(e) /\ Acts(e) /\ Exists(ex[e].jobId))
           => /\ ex'[e].resp.code = 500
              /\ jobs'[ex[e].jobId].status = "failed"
              /\ jobs'[ex[e].jobId].error_message = NoImagesError]_vars

\* C26: when the lookup of the callback's keys returns no image row, the
\* invocation goes to its catch block without an AI call and without the
\* fallback, creates no album and no link, and answers 500: 'Processing
\* failed' with the message after the 'failed' write returned (the job row,
\* when there is one, is then failed with that message), 'Internal server
\* error' with no row changed when that write raised
C26_NoImagesFailsOr500 ==
    [][\A e \in Execs :
         /\ (/\ ex[e].pc = "find_images"
             /\ Acts(e)
             /\ imageDb_findByStorageKeys(images, ex[e].imageKeys) = <<>>)
              => /\ ex'[e].pc = "mark_failed"
                 /\ ex'[e].err \in {NoImagesError, DbError}
                 /\ ~ex'[e].aiFailed
                 /\ ex'[e].albumsResult.albums = <<>>
         /\ (NoImagesFound(e) /\ Acts(e))
              => /\ AlbumRowsBy(e) = <<>>
                 /\ ~ex[e].aiFailed
                 /\ albums' = albums /\ album_images' = album_images
                 /\ ex'[e].resp.code = 500
                 /\ \/ /\ ex'[e].resp.error = "Processing failed"
                       /\ ex'[e].resp.details = NoImagesError
                       /\ DOMAIN jobs' = DOMAIN jobs
                       /\ Exists(ex[e].jobId)
                            => /\ jobs'[ex[e].jobId].status = "failed"
                               /\ jobs'[ex[e].jobId].error_message = NoImagesError
                    \/ /\ ex'[e].resp.error = "Internal server error"
                       /\ jobs' = jobs]_vars

\* a callback for an existing job whose keys name no image has answered 500
\* 'Processing failed' and the job is failed with the message
C26_Witness ==
    \E e \in Execs :
        /\ ex[e].pc = "done"
        /\ ex[e].err = NoImagesError
        /\ ex[e].resp.code = 500
        /\ ex[e].resp.details = NoImagesError
        /\ AlbumRowsBy(e) = <<>>
        /\ Exists(ex[e].jobId)
        /\ jobs[ex[e].jobId].status = "failed"
        /\ jobs[ex[e].jobId].error_message = NoImagesError

----------------------------------------------------------------------------
(* Albums left without images *)

\* C27: once the invocation that created it has answered 200, every album
\* row has at least one linked image, also when a proposal entry names only
\* keys that match no registered image (stated for a callback the queue
\* delivered and a proposal each of whose entries names at least one key)
C27_NoEmptyAlbum ==
    \A e \in Execs :
        (/\ ex[e].fromQueue
         /\ ex[e].resp.code = 200
         /\ WellFormedProposal(jobs[ex[e].jobId].result_data[1].albums))
          => \A k \in 1..Len(AlbumRowsBy(e)) : LinkedTo(AlbumRowsBy(e)[k].id) # {}

----------------------------------------------------------------------------
(* Order of the writes of the job-submission route *)

\* C28: the images are registered before the job row is created, the job row
\* is persisted (pending) before its message is published, and 202 is answered
\* only after the publish succeeded: every job's keys have an image row,
\* a request about to publish has its job row in status pending and no message
\* out yet, every message and every callback the queue delivered names a job
\* of the job store, and the message of a request that answered 202 is in the
\* queue
C28_SubmissionOrder ==
    /\ \A id \in DOMAIN jobs :
         \A key \in Range(jobs[id].image_keys) : RowsOf(key) # {}
    /\ \A s \in DOMAIN sub :
         /\ sub[s].pc = "enqueue"
              => /\ Exists(JobOf(s))
                 /\ jobs[JobOf(s)].status = "pending"
                 /\ jobs[JobOf(s)].image_keys = sub[s].imageKeys
                 /\ \A m \in queue : m.jobId # JobOf(s)
         /\ sub[s].resp.code = 202
              => /\ Exists(JobOf(s))
                 /\ JobQueuePayload(JobOf(s), sub[s].userId, sub[s].imageKeys) \in queue
    /\ \A m \in queue :
         /\ Exists(m.jobId)
         /\ m.imageKeys = jobs[m.jobId].image_keys
         /\ m.userId = jobs[m.jobId].user_id
    /\ \A e \in Execs :
         (ex[e].fromQueue /\ ex[e].pc # "idle") => Exists(ex[e].jobId)

\* a request answered 202 and the queue has delivered its message: the
\* callback found the job row and an image row for each of its keys
C28_Witness ==
    \E s \in DOMAIN sub, e \in Execs :
        /\ sub[s].resp.code = 202
        /\ ex[e].fromQueue
        /\ ex[e].jobId = JobOf(s)
        /\ ex[e].pc = "generate"
        /\ Len(sub[s].imageKeys) = 2
        /\ jobs[JobOf(s)].status = "processing"
        /\ {ex[e].images[k].storage_key : k \in 1..Len(ex[e].images)}
             = Range(sub[s].imageKeys)

----------------------------------------------------------------------------
(* The answer of a callback and the status it wrote *)

\* the invocation answers in this step, after its write of 'processing' was
\* attempted
Answers(e) ==
    /\ ex[e].pc \notin {"idle", "done"}
    /\ ex'[e].pc = "done"
    /\ Exists(ex[e].jobId)

\* C29 as stated: a callback answers 200 only after it wrote completed with
\* result_data equal to the proposal it materialized, and answers 500 for a
\* processing error only after its write of failed succeeded
C29_AnswerAgreesWithStatus ==
    [][\A e \in Execs :
         Answers(e)
           => /\ ex'[e].resp.code = 200
                   => /\ jobs'[ex[e].jobId].status = "completed"
                      /\ jobs'[ex[e].jobId].result_data
                           = JSON_stringify(ex[e].albumsResult)
              /\ (ex'[e].resp.code = 500 /\ ex[e].marked)
                   => jobs'[ex[e].jobId].status = "failed"]_vars

\* C29: a callback answers 200 only in the step that wrote completed with
\* result_data equal to the proposal it materialized (AI-derived or
\* fallback), and 500 'Processing failed' only in the step that wrote failed
\* with the error's message; when a status write itself raised (of
\* processing, or of failed) it answers 500 'Internal server error' and that
\* step changes no row
C29_AnswerAgreesWithWrite ==
    [][\A e \in Execs :
         Answers(e)
           => LET job == jobs'[ex[e].jobId]
                  resp == ex'[e].resp
              IN  \/ /\ resp.code = 200
                     /\ ex[e].pc = "mark_completed"
                     /\ job.status = "completed"
                     /\ job.result_data = JSON_stringify(ex[e].albumsResult)
                     /\ resp.albumsCreated = Len(ex[e].albumsResult.albums)
                  \/ /\ resp.code = 500
                     /\ resp.error = "Processing failed"
                     /\ ex[e].pc = "mark_failed"
                     /\ job.status = "failed"
                     /\ job.error_message = resp.details
                     /\ resp.details = ex[e].err
                  \/ /\ resp.code = 500
                     /\ resp.error = "Internal server error"
                     /\ ex[e].pc \in {"mark_processing", "mark_failed"}
                     /\ jobs' = jobs]_vars

\* a callback the queue delivered answered 500 for a processing error while
\* its write of failed was rejected: the job still reads processing
C29_Witness ==
    \E e \in Execs :
        /\ ex[e].pc = "done"
        /\ ex[e].fromQueue
        /\ ex[e].marked
        /\ ex[e].err # Null
        /\ ex[e].resp.code = 500
        /\ ex[e].resp.error = "Internal server error"
        /\ jobs[ex[e].jobId].status = "processing"
        /\ \A f \in Execs \ {e} : ex[f].pc = "idle"

----------------------------------------------------------------------------
(* Termination of a job *)

\* job id has reached completed or failed
Finished(id) == Exists(id) /\ jobs[id].status \in {"completed", "failed"}

\* C30 as stated: every job whose message was published and is delivered,
\* with every call of the invocations returning (a result or an error),
\* eventually reaches completed or failed
C30_JobFinishes ==
    \A id \in Uuids : (\E m \in queue : m.jobId = id) ~> Finished(id)

\* C30: every callback the queue delivers, with every call of the invocation
\* returning (a result or an error), eventually answers, and by then the job
\* has reached completed or failed unless a status write itself raised, in
\* which case the answer is 500 'Internal server error'
C30_DeliveryAnswers ==
    \A e \in Execs :
        (ex[e].fromQueue /\ ex[e].pc = "mark_processing")
          ~> /\ ex[e].pc = "done"
             /\ \/ Finished(ex[e].jobId)
                \/ ex[e].resp.error = "Internal server error"

\* the write of 'processing' of the first delivery raised and the job stayed
\* pending; the queue delivered the message again and that invocation took
\* the job to completed
C30_Witness ==
    /\ ex[1].fromQueue
    /\ ~ex[1].marked
    /\ ex[1].resp.error = "Internal server error"
    /\ ex[2].fromQueue
    /\ ex[2].jobId = ex[1].jobId
    /\ ex[2].resp.code = 200
    /\ jobs[ex[2].jobId].status = "completed"

TypeOK == \A e \in Execs : ex[e].pc \in {"idle", "mark_processing", "find_images",
             "generate", "create_album", "add_images", "mark_completed",
             "mark_failed", "done"}

============================================================================
